---- MODULE Spec2Model ----
(***************************************************************************)
(* Model of cmd/bosun/sched/template.go: the template rendering Context    *)
(* (Eval, EvalAll, Graph, GraphAll, Lookup, LookupAll, GetMeta, LeftJoin). *)
(* One action per Context method; every action models the whole handler.   *)
(* The collaborators (expr.New, Expr.Execute, ExprPNG, ExprSVG) answer     *)
(* nondeterministically; their answers are drawn with the method's input.  *)
(***************************************************************************)
EXTENDS Integers, Sequences, FiniteSets, TLC

VARIABLES
  Attachments,  \* Context.Attachments: a nil slice or a list of attachments
  Group,        \* Context.State.Group: the tag group of the alert instance
  call,         \* the method last called on the context, with its arguments
  ret,          \* first return value of that call
  err,          \* error returned by that call
  calls,        \* collaborator calls made by that call, in order
  graphsOK      \* number of graph calls that returned no error in this pass

vars == <<Attachments, Group, call, ret, err, calls, graphsOK>>

----------------------------------------------------------------------------
(* Bounds *)

MaxLen == 2       \* longest Result Set returned by one evaluation
MaxExprs == 2     \* most expressions passed to one LeftJoin call
MaxGraphs == 10   \* most attachments accumulated in one render pass

----------------------------------------------------------------------------
(* Tag sets: a TagSet is a set of <<key, value>> pairs with unique keys.   *)

Pair(k, v) == <<k, v>>

HostA == {Pair("host", "a")}
HostB == {Pair("host", "b")}
HostADc1 == {Pair("host", "a"), Pair("dc", "1")}

\* opentsdb.TagSet.Subset as the specification defines it: A.Subset(B) iff
\* every key/value pair of A also appears in B.
Subset(a, b) == \A p \in a : p \in b

\* The nil TagSet (the zero value of `var t opentsdb.TagSet`).
NilTagSet == {}

\* A serialized tag string, already cut at "," and then at the first "=":
\* "host=a,dc=1" is <<<<"host","a">>, <<"dc","1">>>>, "host" is <<<<"host">>>>.
TagStrings ==
  { << <<"host", "a">> >>,
    << <<"host", "b">> >>,
    << <<"host", "a">>, <<"dc", "1">> >>,
    << <<"host">> >>,
    << <<"host", "a">>, <<"host", "b">> >> }

RECURSIVE ParseFrom(_, _, _)
ParseFrom(s, i, ts) ==
  IF i > Len(s) THEN [ok |-> TRUE, t |-> ts]
  ELSE IF Len(s[i]) # 2 THEN [ok |-> FALSE, t |-> NilTagSet]
  ELSE IF \E p \in ts : p[1] = s[i][1] THEN [ok |-> FALSE, t |-> NilTagSet]
  ELSE ParseFrom(s, i + 1, ts \cup {Pair(s[i][1], s[i][2])})

\* opentsdb.ParseTags: fails on a segment without "=" and on a repeated key.
ParseTags(s) == ParseFrom(s, 1, {})

----------------------------------------------------------------------------
(* Values *)

NilErr == [kind |-> "nil"]
NilRet == [nil |-> TRUE]
Val(x) == [nil |-> FALSE, val |-> x]

\* make([]*conf.Attachment, 0) and the nil slice
NilSlice == [nil |-> TRUE, elems |-> <<>>]
EmptySlice == [nil |-> FALSE, elems |-> <<>>]

Digit == <<"0", "1", "2", "3", "4", "5", "6", "7", "8", "9">>

\* fmt.Sprintf("%d", n) for n >= 0
RECURSIVE Itoa(_)
Itoa(n) == IF n < 10 THEN Digit[n + 1] ELSE Itoa(n \div 10) \o Digit[(n % 10) + 1]

----------------------------------------------------------------------------
(* Results and the dynamically typed expression argument *)

Anchors == {HostA, HostB}
ResultGroups == {HostA, HostB, HostADc1}
Values == {7}
Results == [Value : Values, Group : ResultGroups]

SeqsUpTo(S, n) == UNION {[1..k -> S] : k \in 0..n}
ResultSlices == SeqsUpTo(Results, MaxLen)

\* The argument v of eval together with what the expression package answers
\* for it: kind is the dynamic type of v; parses is whether expr.New accepts
\* the text; scoped is whether expr.New accepts the text after ReplaceTags;
\* type is e.Root.Return(); execOK and res are the outcome of e.Execute.
BadType == [kind |-> "other", parses |-> FALSE, scoped |-> FALSE,
            type |-> "number", execOK |-> FALSE, res |-> <<>>]
NoParse == [kind |-> "string", parses |-> FALSE, scoped |-> FALSE,
            type |-> "number", execOK |-> FALSE, res |-> <<>>]
Compiled(kind, scoped, type, execOK, res) ==
  [kind |-> kind, parses |-> TRUE, scoped |-> scoped, type |-> type,
   execOK |-> execOK, res |-> res]

\* Arguments of a method that evaluates without group filtering.
PlainArgs ==
  {BadType, NoParse}
  \cup {Compiled(k, TRUE, "number", FALSE, <<>>) : k \in {"string", "expr"}}
  \cup {Compiled("string", TRUE, "number", TRUE, r) : r \in ResultSlices}

\* Arguments of a method that may filter by the context's group.
FilterArgs ==
  {BadType, NoParse}
  \cup {Compiled(k, FALSE, "number", FALSE, <<>>) : k \in {"string", "expr"}}
  \cup {Compiled(k, TRUE, ty, FALSE, <<>>) :
          k \in {"string", "expr"}, ty \in {"number", "series"}}
  \cup {Compiled(k, TRUE, ty, TRUE, r) :
          k \in {"string", "expr"}, ty \in {"number", "series"},
          r \in ResultSlices}

----------------------------------------------------------------------------
(* Context.eval *)

Failed(e, cs) == [res |-> <<>>, title |-> "", err |-> e, calls |-> cs]

\* Calls of eval into the expression package for argument number i.
NewCall(i) == <<"expr.New", i, 0>>
ExecuteCall(i, autods) == <<"Execute", i, autods>>

\* A missing series check: the expression's type is never looked at.
TypeMismatchSkipped(v, series) == FALSE

\* series && e.Root.Return() != parse.TypeSeries
TypeMismatch(v, series) == series /\ v.type # "series"

\* eval(v, filter, series, autods) for the i-th expression of the caller.
eval(v, i, filter, series, autods) ==
  LET c1 == IF v.kind = "string" THEN <<NewCall(i)>> ELSE <<>>
      c2 == IF filter THEN c1 \o <<NewCall(i)>> ELSE c1
  IN
  IF v.kind \notin {"string", "expr"}
    THEN Failed([kind |-> "expected string or expression"], <<>>)
  ELSE IF v.kind = "string" /\ ~v.parses
    THEN Failed([kind |-> "compile"], c1)
  ELSE IF filter /\ ~v.scoped
    THEN Failed([kind |-> "compile"], c2)
  ELSE IF TypeMismatch(v, series)
    THEN Failed([kind |-> "requires an expression that returns a series"], c2)
  ELSE IF ~v.execOK
    THEN Failed([kind |-> "execute"], c2 \o <<ExecuteCall(i, autods)>>)
  ELSE [res |-> v.res, title |-> "title", err |-> NilErr,
        calls |-> c2 \o <<ExecuteCall(i, autods)>>]

----------------------------------------------------------------------------
(* Schedule.Data, Schedule.ExecuteBody *)

\* The template engine is between two directives: the context has just been
\* built, or the value of the previous directive has been written out.
Ready == call.name \in {"Data", "Render"}

\* t.Body.Execute takes the value a context method returned, writes it to the
\* buffer and moves on to the next directive of the template.
Render ==
  /\ ~Ready
  /\ call' = [name |-> "Render"]
  /\ ret' = NilRet
  /\ err' = NilErr
  /\ calls' = <<>>
  /\ UNCHANGED <<Attachments, Group, graphsOK>>

Data(isEmail, st) ==
  /\ Attachments' = IF isEmail THEN EmptySlice ELSE NilSlice
  /\ Group' = st
  /\ call' = [name |-> "Data", isEmail |-> isEmail]
  /\ ret' = NilRet
  /\ err' = NilErr
  /\ calls' = <<>>
  /\ graphsOK' = 0

IsEmail == ~Attachments.nil

----------------------------------------------------------------------------
(* Context.Eval, Context.EvalAll *)

Eval(v) ==
  LET r == eval(v, 1, TRUE, FALSE, 0) IN
  /\ call' = [name |-> "Eval", v |-> v]
  /\ calls' = r.calls
  /\ IF r.err # NilErr
       THEN ret' = NilRet /\ err' = r.err
     ELSE IF Len(r.res) = 0
       THEN ret' = NilRet /\ err' = [kind |-> "no results returned"]
     ELSE ret' = Val(r.res[1].Value) /\ err' = NilErr
  /\ UNCHANGED <<Attachments, Group, graphsOK>>

EvalAll(v) ==
  LET r == eval(v, 1, FALSE, FALSE, 0) IN
  /\ call' = [name |-> "EvalAll", v |-> v]
  /\ calls' = r.calls
  /\ ret' = Val(r.res)
  /\ err' = r.err
  /\ UNCHANGED <<Attachments, Group, graphsOK>>

----------------------------------------------------------------------------
(* Context.graph, Context.Graph, Context.GraphAll *)

PNGCall == <<"ExprPNG", 1, 0>>
SVGCall == <<"ExprSVG", 1, 0>>

\* Numbering from the current length: the first attachment would be "0.png".
NextNameZeroBased(atts) == Itoa(Len(atts.elems)) \o ".png"

\* Filename of the next attachment: fmt.Sprintf("%d.png", len(c.Attachments)+1)
NextName(atts) == Itoa(Len(atts.elems) + 1) \o ".png"

\* append(c.Attachments, &conf.Attachment{...})
AppendAttachment(atts, name) ==
  [nil |-> FALSE,
   elems |-> Append(atts.elems,
                    [Data |-> "png", Filename |-> name, ContentType |-> "image/png"])]

\* rasterOK is the answer of the rasterizer (ExprPNG or ExprSVG) if called.
graph(fn, v, filter, rasterOK) ==
  LET r == eval(v, 1, filter, TRUE, 1000)
      name == NextName(Attachments)
  IN
  /\ call' = [name |-> fn, v |-> v, filter |-> filter]
  /\ Group' = Group
  /\ IF r.err # NilErr THEN
       /\ ret' = NilRet /\ err' = r.err /\ calls' = r.calls
       /\ UNCHANGED Attachments
     ELSE IF IsEmail THEN
       /\ calls' = r.calls \o <<PNGCall>>
       /\ IF ~rasterOK THEN
            /\ ret' = NilRet /\ err' = [kind |-> "png"]
            /\ UNCHANGED Attachments
          ELSE
            /\ Attachments' = AppendAttachment(Attachments, name)
            /\ ret' = Val(<<"img", "cid:" \o name>>)
            /\ err' = NilErr
     ELSE
       /\ calls' = r.calls \o <<SVGCall>>
       /\ UNCHANGED Attachments
       /\ IF ~rasterOK THEN ret' = NilRet /\ err' = [kind |-> "svg"]
          ELSE ret' = Val(<<"svg">>) /\ err' = NilErr
  \* bookkeeping: the calls of this pass that returned no error
  /\ graphsOK' = IF err' = NilErr THEN graphsOK + 1 ELSE graphsOK

Graph(v, rasterOK) ==
  /\ Len(Attachments.elems) < MaxGraphs
  /\ graphsOK < MaxGraphs
  /\ graph("Graph", v, TRUE, rasterOK)

GraphAll(v, rasterOK) ==
  /\ Len(Attachments.elems) < MaxGraphs
  /\ graphsOK < MaxGraphs
  /\ graph("GraphAll", v, FALSE, rasterOK)

----------------------------------------------------------------------------
(* Context.Lookup, Context.LookupAll *)

TableNames == {"t1", "t2"}
LookupKeys == {"k1", "k2", "k3"}

\* c.schedule.Conf.Lookups: the configured lookup tables. "t2" is not configured.
Lookups ==
  [t \in {"t1"} |->
     << [Tags |-> HostA, Values |-> {Pair("k1", "va")}],
        [Tags |-> {}, Values |-> {Pair("k2", "any")}] >>]

HasKey(entry, key) == \E p \in entry.Values : p[1] = key
ValueOf(entry, key) == (CHOOSE p \in entry.Values : p[1] = key)[2]

\* expr.Lookup.Get: the value of the first entry that has the key and whose
\* tags all match the queried tag set.
RECURSIVE GetFrom(_, _, _, _)
GetFrom(l, i, key, t) ==
  IF i > Len(l) THEN [ok |-> FALSE, v |-> ""]
  ELSE IF HasKey(l[i], key) /\ Subset(l[i].Tags, t)
    THEN [ok |-> TRUE, v |-> ValueOf(l[i], key)]
  ELSE GetFrom(l, i + 1, key, t)

Get(l, key, t) == GetFrom(l, 1, key, t)

\* The dynamically typed group argument of LookupAll and GetMeta.
GroupArgs ==
  {[kind |-> "string", s |-> s] : s \in TagStrings}
  \cup {[kind |-> "tagset", t |-> t] : t \in ResultGroups}
  \cup {[kind |-> "other"]}

TableCall == <<"Conf.Lookups", 0, 0>>
GetCall == <<"Lookup.Get", 0, 0>>

\* A type switch that drops a pre-parsed TagSet argument.
SwitchGroupDropsTagSet(group) ==
  IF group.kind = "string" THEN ParseTags(group.s)
  ELSE [ok |-> TRUE, t |-> NilTagSet]

\* The type switch on the group argument: [ok, t]. There is no default case,
\* so an argument of any other type leaves t the nil TagSet.
SwitchGroup(group) ==
  IF group.kind = "string" THEN ParseTags(group.s)
  ELSE IF group.kind = "tagset" THEN [ok |-> TRUE, t |-> group.t]
  ELSE [ok |-> TRUE, t |-> NilTagSet]

\* The tag set the no-entry error of LookupAll reports.
ReportedTagSet(t) == Group

LookupAllBody(table, key, group) ==
  LET sw == SwitchGroup(group) IN
  IF ~sw.ok THEN
    /\ ret' = Val("") /\ err' = [kind |-> "bad tag"] /\ calls' = <<>>
  ELSE IF table \notin DOMAIN Lookups THEN
    /\ ret' = Val("")
    /\ err' = [kind |-> "unknown lookup table", table |-> table]
    /\ calls' = <<TableCall>>
  ELSE LET g == Get(Lookups[table], key, sw.t) IN
    /\ calls' = <<TableCall, GetCall>>
    /\ IF g.ok THEN ret' = Val(g.v) /\ err' = NilErr
       ELSE /\ ret' = Val("")
            /\ err' = [kind |-> "no entry", key |-> key, table |-> table,
                       tagset |-> ReportedTagSet(sw.t)]

LookupAll(table, key, group) ==
  /\ call' = [name |-> "LookupAll", table |-> table, key |-> key, group |-> group]
  /\ LookupAllBody(table, key, group)
  /\ UNCHANGED <<Attachments, Group, graphsOK>>

Lookup(table, key) ==
  /\ call' = [name |-> "Lookup", table |-> table, key |-> key,
              group |-> [kind |-> "tagset", t |-> Group]]
  /\ LookupAllBody(table, key, [kind |-> "tagset", t |-> Group])
  /\ UNCHANGED <<Attachments, Group, graphsOK>>

----------------------------------------------------------------------------
(* Context.GetMeta *)

Metrics == {"m1", "m2"}
MetaNames == {"", "unit", "desc"}

\* The metadata store behind Schedule.GetMetadata.
Metadata ==
  << [Metric |-> "m1", Tags |-> HostA, Name |-> "unit", Value |-> "bytes"],
     [Metric |-> "m1", Tags |-> HostADc1, Name |-> "unit", Value |-> "bits"],
     [Metric |-> "m1", Tags |-> HostB, Name |-> "desc", Value |-> "text"] >>

\* Schedule.GetMetadata(metric, subset): the entries of the metric whose tags
\* include the given tag set.
GetMetadata(metric, t) ==
  LET Sel(e) == e.Metric = metric /\ Subset(t, e.Tags) IN SelectSeq(Metadata, Sel)

MetaCall == <<"GetMetadata", 0, 0>>

RECURSIVE FindMeta(_, _, _)
FindMeta(meta, i, name) ==
  IF i > Len(meta) THEN NilRet
  ELSE IF meta[i].Name = name THEN Val(meta[i].Value)
  ELSE FindMeta(meta, i + 1, name)

GetMeta(metric, name, v) ==
  LET sw == SwitchGroup(v)
      meta == GetMetadata(metric, sw.t)
  IN
  /\ call' = [name |-> "GetMeta", metric |-> metric, attr |-> name, group |-> v]
  /\ IF ~sw.ok THEN
       /\ ret' = Val(NilTagSet) /\ err' = [kind |-> "bad tag"] /\ calls' = <<>>
     ELSE
       /\ calls' = <<MetaCall>>
       /\ err' = NilErr
       /\ ret' = IF name = "" THEN Val(meta) ELSE FindMeta(meta, 1, name)
  /\ UNCHANGED <<Attachments, Group, graphsOK>>

----------------------------------------------------------------------------
(* Context.LeftJoin *)

\* A matrix cell is a *expr.Result: nil, a pointer to element idx of the
\* Result Set of column col, or a pointer to a fresh Result with value NaN.
NilCell == [ptr |-> "nil"]
ElemCell(col, idx) == [ptr |-> "elem", col |-> col, idx |-> idx]
NaNCell == [ptr |-> "new", Value |-> "NaN"]

\* A loop that remembers the first error but still evaluates the remaining
\* arguments.
RECURSIVE EvalFromNoAbort(_, _, _, _)
EvalFromNoAbort(q, col, results, cs) ==
  IF col > Len(q) THEN [err |-> NilErr, results |-> results, calls |-> cs]
  ELSE LET r == eval(q[col], col, FALSE, FALSE, 0)
           rest == EvalFromNoAbort(q, col + 1, Append(results, r.res), cs \o r.calls)
       IN IF r.err # NilErr
            THEN [err |-> r.err, results |-> <<>>, calls |-> rest.calls]
          ELSE rest

\* The loop over the arguments: evaluate q[col], q[col+1], ... in order and
\* stop at the first error.
RECURSIVE EvalFrom(_, _, _, _)
EvalFrom(q, col, results, cs) ==
  IF col > Len(q) THEN [err |-> NilErr, results |-> results, calls |-> cs]
  ELSE LET r == eval(q[col], col, FALSE, FALSE, 0) IN
    IF r.err # NilErr
      THEN [err |-> r.err, results |-> <<>>, calls |-> cs \o r.calls]
    ELSE EvalFrom(q, col + 1, Append(results, r.res), cs \o r.calls)

\* A scan without the break: later elements overwrite an earlier match.
RECURSIVE ScanNoBreak(_, _, _, _, _)
ScanNoBreak(first, res, col, k, cell) ==
  IF k > Len(res) THEN cell
  ELSE IF Subset(first.Group, res[k].Group)
    THEN ScanNoBreak(first, res, col, k + 1, ElemCell(col, k))
  ELSE ScanNoBreak(first, res, col, k + 1, NaNCell)

\* The loop `for _, r := range res` for one cell: cell is the cell's content
\* before r = res[k] is examined.
RECURSIVE Scan(_, _, _, _, _)
Scan(first, res, col, k, cell) ==
  IF k > Len(res) THEN cell
  ELSE IF Subset(first.Group, res[k].Group) THEN ElemCell(col, k)
  ELSE Scan(first, res, col, k + 1, NaNCell)

\* One row: make([]*expr.Result, len(q)), column 1 the anchor, then one scan
\* per further column.
Row(results, row) ==
  [col \in 1..Len(results) |->
     IF col = 1 THEN ElemCell(1, row)
     ELSE Scan(results[1][row], results[col], col, 1, NilCell)]

Matrix(results) == [row \in 1..Len(results[1]) |-> Row(results, row)]

\* An argument-count check that lets a single expression through.
TooFewOffByOne(q) == Len(q) < 1

\* len(q) < 2
TooFew(q) == Len(q) < 2

LeftJoin(q) ==
  /\ call' = [name |-> "LeftJoin", q |-> q]
  /\ IF TooFew(q) THEN
       /\ ret' = NilRet
       /\ err' = [kind |-> "need at least two expressions", got |-> Len(q)]
       /\ calls' = <<>>
     ELSE LET ev == EvalFrom(q, 1, <<>>, <<>>) IN
       /\ calls' = ev.calls
       /\ IF ev.err # NilErr THEN ret' = NilRet /\ err' = ev.err
          ELSE ret' = Val(Matrix(ev.results)) /\ err' = NilErr
  /\ UNCHANGED <<Attachments, Group, graphsOK>>

----------------------------------------------------------------------------
(* The render pass: a context is built by Data, then the template calls its *)
(* methods one after the other; a new pass starts with a new context.       *)

Init ==
  \E isEmail \in BOOLEAN, st \in Anchors :
    /\ Attachments = IF isEmail THEN EmptySlice ELSE NilSlice
    /\ Group = st
    /\ call = [name |-> "Data", isEmail |-> isEmail]
    /\ ret = NilRet
    /\ err = NilErr
    /\ calls = <<>>
    /\ graphsOK = 0

DataStep == Ready /\ \E isEmail \in BOOLEAN, st \in Anchors : Data(isEmail, st)
EvalStep == Ready /\ \E v \in FilterArgs : Eval(v)
EvalAllStep == Ready /\ \E v \in PlainArgs : EvalAll(v)
GraphStep == Ready /\ \E v \in FilterArgs, rasterOK \in BOOLEAN : Graph(v, rasterOK)
GraphAllStep == Ready /\ \E v \in FilterArgs, rasterOK \in BOOLEAN : GraphAll(v, rasterOK)
LookupStep == Ready /\ \E table \in TableNames, key \in LookupKeys : Lookup(table, key)
LookupAllStep ==
  Ready /\ \E table \in TableNames, key \in LookupKeys, group \in GroupArgs :
    LookupAll(table, key, group)
GetMetaStep ==
  Ready /\ \E metric \in Metrics, name \in MetaNames, v \in GroupArgs :
    GetMeta(metric, name, v)
LeftJoinStep == Ready /\ \E q \in SeqsUpTo(PlainArgs, MaxExprs) : LeftJoin(q)

\* A template may use every method of the context.
Next ==
  \/ DataStep
  \/ EvalStep
  \/ EvalAllStep
  \/ GraphStep
  \/ GraphAllStep
  \/ LookupStep
  \/ LookupAllStep
  \/ GetMetaStep
  \/ LeftJoinStep
  \/ Render

Spec == Init /\ [][Next]_vars

\* Templates that only join.
NextJoin ==
  \/ DataStep
  \/ LeftJoinStep
  \/ Render

SpecJoin == Init /\ [][NextJoin]_vars

\* Templates that only draw graphs.
NextGraph ==
  \/ DataStep
  \/ GraphStep
  \/ GraphAllStep
  \/ Render

SpecGraph == Init /\ [][NextGraph]_vars

\* Templates that only query lookup tables and metadata.
NextLookup ==
  \/ DataStep
  \/ LookupStep
  \/ LookupAllStep
  \/ GetMetaStep
  \/ Render

SpecLookup == Init /\ [][NextLookup]_vars

----------------------------------------------------------------------------
(* Properties of LeftJoin *)

JoinReturned == call.name = "LeftJoin" /\ err.kind = "nil"

\* The Result Set the evaluation of the j-th argument of the last call gave.
ResultSet(j) == call.q[j].res

\* Group b is a superset of group a.
Superset(b, a) == a \subseteq b

\* The elements of Result Set j whose group is a superset of anchor i's group.
Candidates(i, j) ==
  {k \in 1..Len(ResultSet(j)) :
     Superset(ResultSet(j)[k].Group, ResultSet(1)[i].Group)}

Earliest(S) == CHOOSE k \in S : \A m \in S : k <= m

\* C1: after a successful LeftJoin of two or more expressions every cell of
\* the matrix is non-nil: each cell of a later column is an element of that
\* column's Result Set or a NaN sentinel, also when that Result Set is empty.
C1_EveryCellNonNil ==
  JoinReturned =>
    \A i \in DOMAIN ret.val : \A j \in DOMAIN ret.val[i] :
      /\ ret.val[i][j].ptr # "nil"
      /\ j >= 2 =>
           \/ ret.val[i][j] = NaNCell
           \/ \E k \in 1..Len(ResultSet(j)) : ret.val[i][j] = ElemCell(j, k)

\* The groups of the Result Sets of the specification's example:
\* S1 = [{host:a}, {host:b}], S2 = [{host:a, dc:1}].
IsExample ==
  /\ Len(call.q) = 2
  /\ Len(ResultSet(1)) = 2 /\ Len(ResultSet(2)) = 1
  /\ ResultSet(1)[1].Group = HostA /\ ResultSet(1)[2].Group = HostB
  /\ ResultSet(2)[1].Group = HostADc1

\* C2: a successful LeftJoin returns one row per element of the first Result
\* Set, in order, with one column per expression; column 1 of row i is the
\* i-th anchor; a later column that has an element whose group is a superset
\* of the anchor's holds the earliest such element; the example of the
\* specification gives row 1 = [S1[1], S2[1]] and row 2 = [S1[2], NaN].
C2_RowsAndFirstMatch ==
  JoinReturned =>
    /\ DOMAIN ret.val = 1..Len(ResultSet(1))
    /\ \A i \in DOMAIN ret.val :
         /\ DOMAIN ret.val[i] = 1..Len(call.q)
         /\ ret.val[i][1] = ElemCell(1, i)
         /\ \A j \in 2..Len(call.q) :
              Candidates(i, j) # {} =>
                ret.val[i][j] = ElemCell(j, Earliest(Candidates(i, j)))
    /\ IsExample =>
         /\ ret.val[1] = <<ElemCell(1, 1), ElemCell(2, 1)>>
         /\ ret.val[2] = <<ElemCell(1, 2), NaNCell>>

\* An anchor with two candidates in column 2, the earlier one chosen.
C2_Witness ==
  /\ JoinReturned
  /\ \E i \in DOMAIN ret.val :
       /\ Cardinality(Candidates(i, 2)) = 2
       /\ ret.val[i][2] = ElemCell(2, 1)
  /\ \E i \in DOMAIN ret.val : Candidates(i, 2) = {2}

\* C4: LeftJoin with 0 or 1 expressions fails with the argument-count error
\* naming the count, and has compiled and executed nothing.
C4_ArgumentCount ==
  (call.name = "LeftJoin" /\ Len(call.q) < 2) =>
    /\ err = [kind |-> "need at least two expressions", got |-> Len(call.q)]
    /\ ret.nil
    /\ calls = <<>>

\* LeftJoin of a single expression that would have compiled and executed.
C4_Witness ==
  /\ call.name = "LeftJoin"
  /\ Len(call.q) = 1
  /\ call.q[1].kind = "string" /\ call.q[1].parses /\ call.q[1].execOK
  /\ err.kind = "need at least two expressions"

\* Whether the resolution or the execution of argument v fails, and how.
ArgFails(v) ==
  \/ v.kind \notin {"string", "expr"}
  \/ v.kind = "string" /\ ~v.parses
  \/ ~v.execOK

ArgError(v) ==
  IF v.kind \notin {"string", "expr"} THEN "expected string or expression"
  ELSE IF v.kind = "string" /\ ~v.parses THEN "compile"
  ELSE "execute"

FirstFailure(k) ==
  /\ k \in 1..Len(call.q)
  /\ ArgFails(call.q[k])
  /\ \A j \in 1..(k - 1) : ~ArgFails(call.q[j])

\* C6: if the k-th expression of LeftJoin fails to resolve or execute, the
\* call returns that error and a nil result, no call is made for expressions
\* k+1..N, and the calls made are in argument order, each earlier expression
\* having been executed.
C6_AbortAtFirstFailure ==
  (call.name = "LeftJoin" /\ Len(call.q) >= 2) =>
    /\ \A c, d \in 1..Len(calls) : c < d => calls[c][2] <= calls[d][2]
    /\ \A k \in 1..Len(call.q) :
         FirstFailure(k) =>
           /\ ret.nil
           /\ err.kind = ArgError(call.q[k])
           /\ \A c \in 1..Len(calls) : calls[c][2] <= k
           /\ \A j \in 1..(k - 1) : \E c \in 1..Len(calls) : calls[c] = ExecuteCall(j, 0)

\* The first expression fails at execution and a good expression follows it.
C6_Witness ==
  /\ call.name = "LeftJoin"
  /\ Len(call.q) >= 2
  /\ FirstFailure(1)
  /\ ~ArgFails(call.q[2])
  /\ err.kind = "execute"
  /\ calls = <<NewCall(1), ExecuteCall(1, 0)>>

----------------------------------------------------------------------------
(* Properties of Graph and GraphAll *)

GraphCalled == call.name \in {"Graph", "GraphAll"}

\* The name the i-th attachment of a pass must carry.
SequenceName(i) == ToString(i) \o ".png"

C3_WitnessTen ==
  /\ IsEmail /\ GraphCalled /\ err.kind = "nil"
  /\ Attachments.elems[graphsOK].Filename = "10.png"

\* A non-email pass that has rendered three graphs.
C3_WitnessNoEmail == ~IsEmail /\ GraphCalled /\ err.kind = "nil" /\ graphsOK = 3

\* The argument resolves to an expression: it is text that compiles or a
\* compiled expression, and with filtering the group-scoped text compiles.
Resolves(v, filter) ==
  /\ v.kind \in {"string", "expr"}
  /\ v.kind = "string" => v.parses
  /\ filter => v.scoped

IsRasterOrExecute(c) == c[1] \in {"ExprPNG", "ExprSVG", "Execute"}

\* C5: Graph or GraphAll over an expression whose return type is not series
\* fails with the type error, calls neither rasterizer nor the evaluation
\* engine, and appends no attachment, in email and non-email passes alike.
C5_SeriesRequired ==
  [][(Ready /\ call'.name \in {"Graph", "GraphAll"}
        /\ Resolves(call'.v, call'.filter) /\ call'.v.type # "series")
       => /\ err'.kind = "requires an expression that returns a series"
          /\ ret'.nil
          /\ \A c \in 1..Len(calls') : ~IsRasterOrExecute(calls'[c])
          /\ Attachments' = Attachments]_vars

\* Graph over a compiled scalar expression in an email pass that already has
\* an attachment.
C5_Witness ==
  /\ call.name = "Graph" /\ call.v.kind = "expr" /\ call.v.type = "number"
  /\ Resolves(call.v, TRUE) /\ call.v.execOK
  /\ IsEmail /\ Len(Attachments.elems) = 1
  /\ err.kind = "requires an expression that returns a series"

----------------------------------------------------------------------------
(* Properties of Lookup and LookupAll *)

LookupCalled == call.name \in {"Lookup", "LookupAll"}

\* A well-formed group argument: a tag set, or a tag string whose segments
\* are all key=value with no key repeated.
WellFormed(group) ==
  \/ group.kind = "tagset"
  \/ /\ group.kind = "string"
     /\ \A i \in 1..Len(group.s) : Len(group.s[i]) = 2
     /\ \A i, j \in 1..Len(group.s) : group.s[i][1] = group.s[j][1] => i = j

\* The tag group a well-formed group argument denotes.
Denoted(group) ==
  IF group.kind = "tagset" THEN group.t
  ELSE {Pair(group.s[i][1], group.s[i][2]) : i \in 1..Len(group.s)}

Configured(table) == table \in DOMAIN Lookups

\* The table has a row for the key under the tag group.
HasRow(table, key, t) ==
  \E i \in 1..Len(Lookups[table]) :
    /\ \E p \in Lookups[table][i].Values : p[1] = key
    /\ Lookups[table][i].Tags \subseteq t

\* C7: for a well-formed group argument Lookup/LookupAll returns the
\* unknown-table error exactly when the table is not configured, the no-entry
\* error exactly when it is configured and has no row for the key under the
\* group, and a value with no error only when there is such a row.
C7_MissIsAnError ==
  (LookupCalled /\ WellFormed(call.group)) =>
    LET hit == Configured(call.table)
                 /\ HasRow(call.table, call.key, Denoted(call.group))
    IN
    /\ err.kind = "unknown lookup table" <=> ~Configured(call.table)
    /\ err.kind = "no entry" <=> (Configured(call.table) /\ ~hit)
    /\ err.kind = "nil" <=> hit
    /\ err.kind \in {"unknown lookup table", "no entry", "nil"}

\* LookupAll with a parsed tag string misses on a row that another group hits.
C7_Witness ==
  /\ call.name = "LookupAll"
  /\ call.group.kind = "string" /\ WellFormed(call.group)
  /\ err.kind = "no entry"
  /\ \E t \in ResultGroups : HasRow(call.table, call.key, t)

\* A hit through a pre-parsed tag set.
C7_WitnessHit ==
  /\ call.name = "LookupAll" /\ call.group.kind = "tagset"
  /\ err.kind = "nil" /\ ret.val = "va"

\* C8: when LookupAll misses on a configured table, the tagset named in the
\* no-entry error is the group that was queried, also when that group differs
\* from the context's own group.
C8_ErrorNamesQueriedGroup ==
  (LookupCalled /\ WellFormed(call.group) /\ err.kind = "no entry") =>
    err.tagset = Denoted(call.group)

----------------------------------------------------------------------------
(* Properties of the dynamically typed arguments and of Eval *)

\* C9: every method that takes a dynamically typed argument rejects an
\* argument of an unsupported type with an error before it calls any
\* collaborator (evaluation engine, lookup table, metadata store).
C9_UnsupportedTypeRejected ==
  /\ (call.name \in {"Eval", "EvalAll", "Graph", "GraphAll"}
        /\ call.v.kind = "other")
       => (err.kind = "expected string or expression" /\ calls = <<>>)
  /\ (call.name = "LeftJoin" /\ Len(call.q) >= 2 /\ call.q[1].kind = "other")
       => (err.kind = "expected string or expression" /\ calls = <<>>)
  /\ (call.name \in {"LookupAll", "GetMeta"} /\ call.group.kind = "other")
       => (err.kind # "nil" /\ calls = <<>>)

\* The results of the last Eval whose tags are the context's tag group, and
\* those with nil tags.
WithContextTags == {k \in 1..Len(call.v.res) : call.v.res[k].Group = Group}
WithNilTags == {k \in 1..Len(call.v.res) : call.v.res[k].Group = NilTagSet}

\* C10: when the evaluation succeeds, Eval returns no error and the value of
\* a result whose tags are the context's tag group; without such a result,
\* the value of the first result with nil tags; without that one too (also
\* when there are no results at all), nil.
C10_EvalPicksByTags ==
  (call.name = "Eval" /\ Resolves(call.v, TRUE) /\ call.v.execOK) =>
    /\ err.kind = "nil"
    /\ IF WithContextTags # {}
         THEN ~ret.nil /\ \E k \in WithContextTags : ret.val = call.v.res[k].Value
       ELSE IF WithNilTags # {}
         THEN ~ret.nil /\ ret.val = call.v.res[Earliest(WithNilTags)].Value
       ELSE ret.nil

====
